---- MODULE Spec2Model ----
(***************************************************************************)
(* Model of the federated users / products services of the repository.    *)
(*                                                                         *)
(* The repository holds three NestJS applications: the users service and  *)
(* the products service (two federation subgraphs, each with a Prisma     *)
(* database) and the api-gateway, which is an ApolloGatewayDriver          *)
(* configured with IntrospectAndCompose over the two subgraphs.            *)
(* Query planning, plan execution and response merging are done inside     *)
(* the @apollo/gateway package; the repository configures it and serves    *)
(* the sub-operations it sends.  The model covers the state the repository *)
(* owns (the two tables, which processes listen), the resolvers and        *)
(* service methods the gateway's sub-operations end up in, and the one     *)
(* federated request whose query plan the repository documents:            *)
(* user(id) { name products { name } }, fetched from users, then from      *)
(* products by entity reference, then merged.  It also covers the          *)
(* products seed script and the two ways the processes are launched        *)
(* (pnpm dev, docker-compose), the methods of UsersService and             *)
(* ProductsService with their Prisma statements and exceptions, and calls  *)
(* of ProductsService methods made at once by several callers.             *)
(*                                                                         *)
(* Abstractions: createdAt / updatedAt and the product's description,      *)
(* price and stock are carried by no guard and are left out of the records; *)
(* strings are drawn from small named sets.                                 *)
(***************************************************************************)
EXTENDS Integers, Sequences, FiniteSets, TLC

\* ------------------------------------------------------------------ bounds
MaxUsers    == 1    \* rows the users table may hold in the model
MaxProducts == 2    \* rows the products table may hold in the model
SeedCount   == 2    \* products the seed creates in the model (the script creates 20)
MaxClock    == 6    \* seconds after launch the model follows

\* ------------------------------------------------------------ value sets
\* Identifiers that match the v4 UUID pattern, and strings that do not.
WellFormedIds == {"00000000-0000-4000-8000-000000000001",
                  "00000000-0000-4000-8000-000000000002",
                  "00000000-0000-4000-8000-000000000003"}
MalformedIds  == {"u1"}
Ids           == WellFormedIds \cup MalformedIds

Emails    == {"a@x.io", "b@x.io"}
Names     == {"Ann"}
Passwords == {"secret1"}
Skus      == {"SKU-00001", "SKU-00002", "SKU-00003"}
ProductNames == {"Laptop Pro"}

\* "sleep 5 && pnpm start:gateway" of the dev script.
SleepSeconds == 5

\* ------------------------------------------------------ gateway settings
\* subgraphs: [...] of IntrospectAndCompose, in declaration order.
Subgraphs == <<"users", "products">>

\* @key(fields: "id") of the User type, as declared by its owner (users
\* service) and by its extender (products service).
UserKeyFields          == {"id"}
UserExtensionKeyFields == {"id"}

\* Fields each subgraph declares on User: the owner's fields, and the
\* extension's (id is @external there, products is contributed).
UserOwnedFields     == {"id", "email", "name", "createdAt", "updatedAt"}
UserExternalFields  == {"id"}
UserExtensionFields == {"products"}

\* --------------------------------------------------------------- helpers
\* A format test that accepts every string.
isValidUUID_any(uuid) == uuid \in Ids \cup {""}

\* isValidUUID(uuid): the v4 pattern test.
isValidUUID(uuid) == uuid \in WellFormedIds

\* A hash function that returns its argument.
bcryptHash_plain(password) == password

\* bcrypt.hash(password, 10): a string with the bcrypt prefix of cost 10,
\* never the plaintext, and different for different plaintexts.
bcryptHash(password) == "$2a$10$" \o password

\* A conversion that copies every column of the row.
toGraphQLUser_withPassword(prismaUser) ==
    [__typename |-> "User",
     id         |-> prismaUser.id,
     email      |-> prismaUser.email,
     name       |-> prismaUser.name,
     password   |-> prismaUser.password]

\* UsersResolver.toGraphQLUser: copies id, email and name and tags the
\* object; the stored password is not copied.
toGraphQLUser(prismaUser) ==
    [__typename |-> "User",
     id         |-> prismaUser.id,
     email      |-> prismaUser.email,
     name       |-> prismaUser.name]

\* ProductsResolver.toGraphQLProduct / UserResolver.toGraphQLProduct:
\* copies the row and attaches the owning user as a federation reference.
toGraphQLProduct(prismaProduct) ==
    [__typename |-> "Product",
     id         |-> prismaProduct.id,
     name       |-> prismaProduct.name,
     sku        |-> prismaProduct.sku,
     userId     |-> prismaProduct.userId,
     user       |-> [__typename |-> "User", id |-> prismaProduct.userId]]

\* A field selection applied to an object: the object restricted to the
\* selected fields.
Project(obj, fields) == [f \in fields |-> obj[f]]

\* The documented federated query: user(id) { name products { name } }.
RequestedUserFields    == {"name", "products"}
RequestedProductFields == {"name"}

\* Query plan, fetch 1 (users service): the requested fields the users
\* subgraph owns, plus __typename and the key of User, which the next fetch
\* needs to address the entity.
usersSelection ==
    (RequestedUserFields \cap UserOwnedFields) \cup {"__typename"} \cup UserKeyFields

\* Query plan, fetch 2 (products service): the requested fields the
\* products subgraph contributes to User.
entitiesSelection == RequestedUserFields \cap UserExtensionFields

VARIABLES
    users,      \* users_db, table User: set of rows [id, email, name, password]
    products,   \* products_db, table Product: set of rows [id, name, sku, userId]
    listening,  \* subgraph processes whose bootstrap() has reached app.listen
    gateway,    \* api-gateway bootstrap(): "down", "listening" or "failed"
    reply,      \* outcome of the last resolver call made directly on a subgraph
    req,        \* the federated request the gateway is serving
    seed,       \* the products seed script (prisma/seed.ts main): position and locals
    launch,     \* how the three processes were launched, and the seconds since
    calls       \* per concurrent caller: the products-service call it has in flight

vars == <<users, products, listening, gateway, reply, req, seed, launch, calls>>

\* A resolver outcome: which resolver ran, how it ended, and the objects it
\* returned (empty for null or an exception, several for a list).
Reply(op, status, value) == [op |-> op, status |-> status, value |-> value]

\* prisma.user.findUnique({ where: { id } }): the rows with that id (0 or 1).
userFindUnique(id) == {u \in users : u.id = id}

\* prisma.product.findUnique({ where: { id } })
productFindUnique(id) == {p \in products : p.id = id}

\* The lookup without its where clause: every row, whoever owns it.
productFindManyByUser_noFilter(userId) == products

\* prisma.product.findMany({ where: { userId } })
productFindManyByUser(userId) == {p \in products : p.userId = userId}

\* UsersService.findOne behind UsersResolver.findOne (query user(id),
\* nullable): format check first, then the lookup.
UsersResolver_findOne(id) ==
    IF ~isValidUUID(id)
    THEN Reply("user", "InvalidFormatException", {})
    ELSE IF userFindUnique(id) = {}
         THEN Reply("user", "null", {})
         ELSE Reply("user", "ok", {toGraphQLUser(u) : u \in userFindUnique(id)})

\* UsersResolver.resolveReference({__typename, id}) -> UsersService.findOne.
UsersResolver_resolveReference(reference) ==
    IF ~isValidUUID(reference.id)
    THEN Reply("User.resolveReference", "InvalidFormatException", {})
    ELSE IF userFindUnique(reference.id) = {}
         THEN Reply("User.resolveReference", "null", {})
         ELSE Reply("User.resolveReference", "ok",
                    {toGraphQLUser(u) : u \in userFindUnique(reference.id)})

\* UserResolver.products(@Parent() user) of the products service: the
\* field the products subgraph adds to User.  The parent holds only the
\* key (id) taken from the representation.
UserResolver_products(user) ==
    IF ~isValidUUID(user.id)
    THEN Reply("User.products", "InvalidFormatException", {})
    ELSE Reply("User.products", "ok",
               {toGraphQLProduct(p) : p \in productFindManyByUser(user.id)})

\* ProductsResolver.user(@Parent() product): returns a reference to the
\* owning user, never the user itself; no table is read.
ProductsResolver_user(product) ==
    Reply("Product.user", "ok", {[__typename |-> "User", id |-> product.userId]})

\* ProductsResolver.resolveReference({__typename, id}) -> ProductsService.findOne.
ProductsResolver_resolveReference(reference) ==
    IF ~isValidUUID(reference.id)
    THEN Reply("Product.resolveReference", "InvalidFormatException", {})
    ELSE IF productFindUnique(reference.id) = {}
         THEN Reply("Product.resolveReference", "null", {})
         ELSE Reply("Product.resolveReference", "ok",
                    {toGraphQLProduct(p) : p \in productFindUnique(reference.id)})

\* No request in progress at the gateway.
IdleReq ==
    [pc              |-> "idle",
     id              |-> "",
     stored          |-> {},     \* the user rows with this id when fetch 1 ran
     owned           |-> {},     \* that user's product rows when fetch 2 ran
     steps           |-> <<>>,   \* sub-operations dispatched so far, in order
     userStatus      |-> "none",
     user            |-> {},     \* objects returned by fetch 1
     representations |-> {},     \* {__typename, id} built from fetch 1
     entities        |-> {},     \* per representation: outcome of fetch 2
     response        |-> [user |-> {}, errors |-> {}]]

\* The seed script is not running.
IdleSeed == [pc |-> "idle", userIds |-> {}, lookup |-> "none", i |-> 0]

\* Nothing has been launched by pnpm dev or docker-compose.
NotLaunched == [mode |-> "none", running |-> {}, clock |-> 0]

\* The callers that may have a products-service call in flight at once.
Callers == {"c1", "c2"}

\* A caller with no call in flight.
IdleCall == [pc |-> "idle", op |-> "none", id |-> "", input |-> "", status |-> "none"]

Init ==
    /\ users = {}
    /\ products = {}
    /\ listening = {}
    /\ gateway = "down"
    /\ reply = Reply("none", "none", {})
    /\ req = IdleReq
    /\ seed = IdleSeed
    /\ launch = NotLaunched
    /\ calls = [c \in Callers |-> IdleCall]

\* bootstrap() of the users service and of the products service:
\* NestFactory.create, then app.listen(port).
Bootstrap(svc) ==
    /\ svc \notin listening
    /\ listening' = listening \cup {svc}
    /\ UNCHANGED <<users, products, gateway, reply, req, seed, launch, calls>>

\* bootstrap() of the api-gateway: NestFactory.create(AppModule) loads the
\* gateway, which introspects every subgraph of the list; with a subgraph
\* not yet listening the service definitions cannot be loaded and the
\* gateway does not come up.
GatewayBootstrap ==
    /\ gateway = "down"
    /\ gateway' = IF \A i \in 1..Len(Subgraphs) : Subgraphs[i] \in listening
                  THEN "listening"
                  ELSE "failed"
    /\ UNCHANGED <<users, products, listening, reply, req, seed, launch, calls>>

\* UsersResolver.createUser -> UsersService.create: hash the password,
\* insert; a unique-constraint failure on email becomes
\* DuplicateResourceException('Email').
createUser(email, name, password) ==
    /\ "users" \in listening
    /\ IF \E u \in users : u.email = email
       THEN /\ reply' = Reply("createUser", "DuplicateResourceException", {})
            /\ UNCHANGED users
       ELSE /\ Cardinality(users) < MaxUsers
            /\ \E id \in WellFormedIds :
                 /\ userFindUnique(id) = {}
                 /\ LET row == [id |-> id, email |-> email, name |-> name,
                                password |-> bcryptHash(password)]
                    IN /\ users' = users \cup {row}
                       /\ reply' = Reply("createUser", "ok", {toGraphQLUser(row)})
    /\ UNCHANGED <<products, listening, gateway, req, seed, launch, calls>>

\* ProductsResolver.createProduct -> ProductsService.create: the userId
\* format is checked, the user's existence is not; a unique-constraint
\* failure on sku becomes DuplicateResourceException('SKU').
createProduct(name, sku, userId) ==
    /\ "products" \in listening
    /\ IF ~isValidUUID(userId)
       THEN /\ reply' = Reply("createProduct", "InvalidFormatException", {})
            /\ UNCHANGED products
       ELSE IF \E p \in products : p.sku = sku
       THEN /\ reply' = Reply("createProduct", "DuplicateResourceException", {})
            /\ UNCHANGED products
       ELSE /\ Cardinality(products) < MaxProducts
            /\ \E id \in WellFormedIds :
                 /\ productFindUnique(id) = {}
                 /\ LET row == [id |-> id, name |-> name, sku |-> sku, userId |-> userId]
                    IN /\ products' = products \cup {row}
                       /\ reply' = Reply("createProduct", "ok", {toGraphQLProduct(row)})
    /\ UNCHANGED <<users, listening, gateway, req, seed, launch, calls>>

\* A query or an entity lookup sent to one subgraph directly.
UsersFindOne(id) ==
    /\ "users" \in listening
    /\ reply' = UsersResolver_findOne(id)
    /\ UNCHANGED <<users, products, listening, gateway, req, seed, launch, calls>>

UsersResolveReference(reference) ==
    /\ "users" \in listening
    /\ reply' = UsersResolver_resolveReference(reference)
    /\ UNCHANGED <<users, products, listening, gateway, req, seed, launch, calls>>

UserProducts(user) ==
    /\ "products" \in listening
    /\ reply' = UserResolver_products(user)
    /\ UNCHANGED <<users, products, listening, gateway, req, seed, launch, calls>>

ProductUser(product) ==
    /\ "products" \in listening
    /\ reply' = ProductsResolver_user(product)
    /\ UNCHANGED <<users, products, listening, gateway, req, seed, launch, calls>>

ProductsResolveReference(reference) ==
    /\ "products" \in listening
    /\ reply' = ProductsResolver_resolveReference(reference)
    /\ UNCHANGED <<users, products, listening, gateway, req, seed, launch, calls>>

\* ------------------------------------------------- launching the processes
\* pnpm dev: concurrently "pnpm start:users" "pnpm start:products"
\* "sleep 5 && pnpm start:gateway".  The two services are started at once;
\* the gateway's command begins with its sleep.
PnpmDev ==
    /\ launch.mode = "none"
    /\ launch' = [mode |-> "dev", running |-> {"users", "products"}, clock |-> 0]
    /\ UNCHANGED <<users, products, listening, gateway, reply, req, seed, calls>>

\* docker-compose up: no container runs yet.
DockerComposeUp ==
    /\ launch.mode = "none"
    /\ launch' = [mode |-> "compose", running |-> {}, clock |-> 0]
    /\ UNCHANGED <<users, products, listening, gateway, reply, req, seed, calls>>

\* The users-service or products-service container is started; its command
\* (prisma migrate deploy, then the service) begins to run.
ComposeStartContainer(svc) ==
    /\ launch.mode = "compose"
    /\ svc \notin launch.running
    /\ launch' = [launch EXCEPT !.running = @ \cup {svc}]
    /\ UNCHANGED <<users, products, listening, gateway, reply, req, seed, calls>>

\* One second passes after pnpm dev.
Tick ==
    /\ launch.mode = "dev"
    /\ launch.clock < MaxClock
    /\ launch' = [launch EXCEPT !.clock = @ + 1]
    /\ UNCHANGED <<users, products, listening, gateway, reply, req, seed, calls>>

\* A launched service reaches app.listen, after whatever time it takes.
LaunchedBootstrap(svc) ==
    /\ svc \in launch.running
    /\ Bootstrap(svc)

\* The gateway process is started.  Under pnpm dev that is when its sleep
\* has elapsed; under docker-compose, depends_on lists users-service and
\* products-service without a condition, so it is when both containers
\* have been started.
LaunchedGatewayBootstrap ==
    /\ \/ launch.mode = "dev" /\ launch.clock >= SleepSeconds
       \/ launch.mode = "compose" /\ {"users", "products"} \subseteq launch.running
    /\ GatewayBootstrap

\* ------------------------------------------------- the products seed
\* Fallback user ids of the seed, 00000000-0000-4000-8000-<i padded to 12>:
\* the model's well-formed ids are the first of them.
FallbackIds == WellFormedIds

\* sku of the i-th product: `SKU-${String(i).padStart(5, '0')}`.
SeedSku(i) == <<"SKU-00001", "SKU-00002", "SKU-00003">>[i]

\* productNames[i - 1]; every name of the list is one model name.
SeedName(i) == "Laptop Pro"

\* The seed without its deleteMany: the table is left as it was found.
SeedDeleteMany_keep ==
    /\ seed.pc \in {"idle", "done", "failed"}
    /\ seed' = [seed EXCEPT !.pc = "lookup", !.userIds = {}, !.lookup = "none", !.i = 0]
    /\ UNCHANGED <<users, products, listening, gateway, reply, req, launch, calls>>

\* main(), first statement: prisma.product.deleteMany().  The script can
\* be run again after it ended.
SeedDeleteMany ==
    /\ seed.pc \in {"idle", "done", "failed"}
    /\ products' = {}
    /\ seed' = [IdleSeed EXCEPT !.pc = "lookup"]
    /\ UNCHANGED <<users, listening, gateway, reply, req, launch, calls>>

\* main(), the try block: usersPrisma.user.findMany.  With users found
\* their ids are taken; with none, or when the query throws (the catch
\* block), the fallback ids are taken.
SeedFetchUsers ==
    /\ seed.pc = "lookup"
    /\ \E outcome \in {"answered", "threw"} :
         seed' = [seed EXCEPT
                    !.pc = "create",
                    !.lookup = IF outcome = "threw" THEN "error"
                               ELSE IF users # {} THEN "found" ELSE "empty",
                    !.userIds = IF outcome = "answered" /\ users # {}
                                THEN {u.id : u \in users}
                                ELSE FallbackIds]
    /\ UNCHANGED <<users, products, listening, gateway, reply, req, launch, calls>>

\* main(), one turn of the for loop: prisma.product.create with the i-th
\* name and sku and a user id picked at random from userIds.  A taken sku
\* makes create throw, which ends the script through main().catch.
SeedCreateProduct ==
    /\ seed.pc = "create"
    /\ LET i == seed.i + 1
       IN IF \E p \in products : p.sku = SeedSku(i)
          THEN /\ seed' = [seed EXCEPT !.pc = "failed"]
               /\ UNCHANGED products
          ELSE \E userId \in seed.userIds, id \in WellFormedIds :
                 /\ productFindUnique(id) = {}
                 /\ products' = products \cup
                        {[id |-> id, name |-> SeedName(i), sku |-> SeedSku(i),
                          userId |-> userId]}
                 /\ seed' = [seed EXCEPT !.i = i,
                                         !.pc = IF i = SeedCount THEN "done" ELSE "create"]
    /\ UNCHANGED <<users, listening, gateway, reply, req, launch, calls>>

\* ------------------------------------------------- the federated request
\* "Client requests: { user(id) { name, products { name } } }".
GatewayReceive(id) ==
    /\ gateway = "listening"
    /\ req.pc = "idle"
    /\ req' = [IdleReq EXCEPT !.pc = "users", !.id = id]
    /\ UNCHANGED <<users, products, listening, gateway, reply, seed, launch, calls>>

\* Plan step 1, "Fetch from Users Service": user(id) with usersSelection,
\* served by UsersResolver.findOne.  The representations for step 2 are
\* built from the objects this fetch returned; without a user object there
\* is no reference to call the products service with.
FetchUsers ==
    /\ req.pc = "users"
    /\ LET r    == UsersResolver_findOne(req.id)
           objs == {Project(o, usersSelection) : o \in r.value}
       IN req' = [req EXCEPT
                    !.pc = IF objs # {} /\ entitiesSelection # {}
                           THEN "entities" ELSE "merge",
                    !.stored = {u \in users : u.id = req.id},
                    !.steps = Append(@, [service         |-> "users",
                                         wave            |-> 0,
                                         selection       |-> usersSelection,
                                         representations |-> {}]),
                    !.userStatus = r.status,
                    !.user = objs,
                    !.representations =
                        {Project(o, {"__typename"} \cup UserKeyFields) : o \in objs}]
    /\ UNCHANGED <<users, products, listening, gateway, reply, seed, launch, calls>>

\* Plan step 2, "Fetch from Products Service": _entities(representations)
\* { ... on User { products { name } } }.  The products service has no
\* reference resolver for User, so each representation is itself the parent
\* handed to UserResolver.products.
FetchEntities ==
    /\ req.pc = "entities"
    /\ req' = [req EXCEPT
                 !.pc = "merge",
                 !.owned = {p \in products : p.userId = req.id},
                 !.steps = Append(@, [service         |-> "products",
                                      wave            |-> 1,
                                      selection       |-> entitiesSelection,
                                      representations |-> req.representations]),
                 !.entities =
                     {[representation |-> rep,
                       status   |-> UserResolver_products(rep).status,
                       products |-> {[row  |-> o.id,
                                      node |-> Project(o, RequestedProductFields)]
                                     : o \in UserResolver_products(rep).value}]
                      : rep \in req.representations}]
    /\ UNCHANGED <<users, products, listening, gateway, reply, seed, launch, calls>>

\* Plan step 3, "Merge Results": the entity's products are placed under
\* the user object they belong to; a failed fetch leaves null at its path
\* and an entry in errors (user is nullable, User.products is not).
MergeResults ==
    /\ req.pc = "merge"
    /\ LET failed == {e \in req.entities : e.status # "ok"}
           merged == {[name     |-> o.name,
                       products |-> UNION {e.products : e \in
                                      {e \in req.entities : e.representation.id = o.id}}]
                      : o \in req.user}
           errs   == (IF req.userStatus \notin {"ok", "null"}
                      THEN {[path |-> "user", kind |-> req.userStatus]} ELSE {})
                     \cup {[path |-> "user.products", kind |-> e.status] : e \in failed}
       IN req' = [req EXCEPT
                    !.pc = "done",
                    !.response = [user   |-> IF failed = {} THEN merged ELSE {},
                                  errors |-> errs]]
    /\ UNCHANGED <<users, products, listening, gateway, reply, seed, launch, calls>>

\* The response has been sent; the gateway takes the next request.
GatewayRespond ==
    /\ req.pc = "done"
    /\ req' = IdleReq
    /\ UNCHANGED <<users, products, listening, gateway, reply, seed, launch, calls>>

\* The representations a caller can send: {__typename, id}.
UserRefs    == {[__typename |-> "User", id |-> i] : i \in Ids}
ProductRefs == {[__typename |-> "Product", id |-> i] : i \in Ids}

\* The services, the gateway's request and the seed together.  Each group
\* of operations also has a specification of its own below (SpecGateway,
\* SpecSeed, SpecStartup, SpecSeedRuns, SpecUsersCrud, SpecProductsCrud,
\* SpecServices, SpecReference, SpecProductsRace).
Next ==
    \/ \E svc \in {"users", "products"} : Bootstrap(svc)
    \/ GatewayBootstrap
    \/ \E e \in Emails, n \in Names, pw \in Passwords : createUser(e, n, pw)
    \/ \E n \in ProductNames, s \in Skus, i \in Ids : createProduct(n, s, i)
    \/ \E i \in Ids : UsersFindOne(i)
    \/ \E r \in UserRefs : UsersResolveReference(r)
    \/ \E r \in UserRefs : UserProducts(r)
    \/ \E p \in products : ProductUser(toGraphQLProduct(p))
    \/ \E r \in ProductRefs : ProductsResolveReference(r)
    \/ \E i \in Ids : GatewayReceive(i)
    \/ FetchUsers
    \/ FetchEntities
    \/ MergeResults
    \/ GatewayRespond
    \/ SeedDeleteMany
    \/ SeedFetchUsers
    \/ SeedCreateProduct

Spec == Init /\ [][Next]_vars

\* The federated request and the mutations that change what it reads; the
\* read-only calls made on a subgraph directly touch nothing it uses.
NextGateway ==
    \/ \E svc \in {"users", "products"} : Bootstrap(svc)
    \/ GatewayBootstrap
    \/ \E e \in Emails, n \in Names, pw \in Passwords : createUser(e, n, pw)
    \/ \E n \in ProductNames, s \in Skus, i \in Ids : createProduct(n, s, i)
    \/ \E i \in Ids : GatewayReceive(i)
    \/ FetchUsers
    \/ FetchEntities
    \/ MergeResults
    \/ GatewayRespond

SpecGateway == Init /\ [][NextGateway]_vars

\* The seed script next to the two services' create mutations.
NextSeed ==
    \/ \E svc \in {"users", "products"} : Bootstrap(svc)
    \/ \E e \in Emails, n \in Names, pw \in Passwords : createUser(e, n, pw)
    \/ \E n \in ProductNames, s \in Skus, i \in Ids : createProduct(n, s, i)
    \/ SeedDeleteMany
    \/ SeedFetchUsers
    \/ SeedCreateProduct

SpecSeed == Init /\ [][NextSeed]_vars

\* The processes as pnpm dev or docker-compose launch them.
NextStartup ==
    \/ PnpmDev
    \/ DockerComposeUp
    \/ \E svc \in {"users", "products"} : ComposeStartContainer(svc)
    \/ Tick
    \/ \E svc \in {"users", "products"} : LaunchedBootstrap(svc)
    \/ LaunchedGatewayBootstrap
    \/ \E e \in Emails, n \in Names, pw \in Passwords : createUser(e, n, pw)
    \/ \E n \in ProductNames, s \in Skus, i \in Ids : createProduct(n, s, i)

SpecStartup == Init /\ [][NextStartup]_vars

\* ------------------------------------------------- the seed, run after run
\* A product created through the API while no seed run is in progress:
\* the contents a run of the seed may find.
CreateProductBetweenRuns(name, sku, userId) ==
    /\ seed.pc \in {"idle", "done", "failed"}
    /\ createProduct(name, sku, userId)

\* Runs of the products seed one after the other, with products created
\* through the API before and between them.
NextSeedRuns ==
    \/ \E svc \in {"users", "products"} : Bootstrap(svc)
    \/ \E e \in Emails, n \in Names, pw \in Passwords : createUser(e, n, pw)
    \/ \E n \in ProductNames, s \in Skus, i \in Ids : CreateProductBetweenRuns(n, s, i)
    \/ SeedDeleteMany
    \/ SeedFetchUsers
    \/ SeedCreateProduct

SpecSeedRuns == Init /\ [][NextSeedRuns]_vars

\* ------------------------------------------------- the service methods
\* A field a GraphQL input leaves out (undefined in the handler).
Undefined == "undefined"

\* JavaScript truthiness of an optional string: undefined and the empty
\* string are falsy.
Truthy(v) == v # Undefined /\ v # ""

\* libs/exceptions: each exception class, the class it extends and the HTTP
\* status it carries.
ExceptionParent ==
    [ResourceNotFoundException  |-> "HttpException",
     DuplicateResourceException |-> "HttpException",
     InvalidFormatException     |-> "BadRequestException"]

ExceptionHttpStatus ==
    [ResourceNotFoundException  |-> 404,
     DuplicateResourceException |-> 409,
     InvalidFormatException     |-> 400]

\* The exceptions the services declare.
DeclaredExceptions == DOMAIN ExceptionParent

\* error instanceof BadRequestException
IsBadRequestException(status) ==
    /\ status \in DeclaredExceptions
    /\ ExceptionParent[status] = "BadRequestException"

\* The catch block without its P2002 branch.
catchP2002_rethrow(code) == code

\* The catch block of create and update: a P2002 error on the unique column
\* becomes DuplicateResourceException, every other error is thrown again
\* as it came from Prisma.
catchP2002(code) == IF code = "P2002" THEN "DuplicateResourceException" ELSE code

\* What a finished call hands back: how it ended, the rows the service
\* method returned, the table after it, and the database queries it made.
Result(status, value, table, queries) ==
    [status |-> status, value |-> value, table |-> table, queries |-> queries]

\* prisma.user.create({ data }): the unique index on email rejects a taken
\* email with P2002.
prismaUserCreate(table, newId, data) ==
    IF \E u \in table : u.email = data.email
    THEN [code |-> "P2002", rows |-> {}, table |-> table]
    ELSE LET row == [id |-> newId, email |-> data.email, name |-> data.name,
                     password |-> data.password]
         IN [code |-> "ok", rows |-> {row}, table |-> table \cup {row}]

\* prisma.user.update({ where: { id }, data }): P2025 without the record,
\* P2002 when another record holds the new email; fields left undefined in
\* data keep their value.
prismaUserUpdate(table, id, data) ==
    IF ~\E u \in table : u.id = id
    THEN [code |-> "P2025", rows |-> {}, table |-> table]
    ELSE IF data.email # Undefined /\ \E u \in table : u.id # id /\ u.email = data.email
    THEN [code |-> "P2002", rows |-> {}, table |-> table]
    ELSE LET new(u) == [u EXCEPT
                          !.email    = IF data.email # Undefined THEN data.email ELSE @,
                          !.password = IF data.password # Undefined THEN data.password ELSE @]
         IN [code  |-> "ok",
             rows  |-> {new(u) : u \in {v \in table : v.id = id}},
             table |-> {IF u.id = id THEN new(u) ELSE u : u \in table}]

\* prisma.user.delete({ where: { id } }): P2025 without the record.
prismaUserDelete(table, id) ==
    IF ~\E u \in table : u.id = id
    THEN [code |-> "P2025", rows |-> {}, table |-> table]
    ELSE [code |-> "ok", rows |-> {u \in table : u.id = id},
          table |-> {u \in table : u.id # id}]

\* UsersService.create(createUserInput)
UsersService_create(table, newId, input) ==
    LET hashedPassword == bcryptHash(input.password)
        r == prismaUserCreate(table, newId, [input EXCEPT !.password = hashedPassword])
    IN Result(catchP2002(r.code), r.rows, r.table, 1)

\* UsersService.findAll()
UsersService_findAll(table) == Result("ok", table, table, 1)

\* A findOne that throws for a missing record instead of returning null.
UsersService_findOne_orThrow(table, id) ==
    IF ~isValidUUID(id)
    THEN Result("InvalidFormatException", {}, table, 0)
    ELSE LET found == {u \in table : u.id = id}
         IN Result(IF found = {} THEN "ResourceNotFoundException" ELSE "ok", found, table, 1)

\* UsersService.findOne(id)
UsersService_findOne(table, id) ==
    IF ~isValidUUID(id)
    THEN Result("InvalidFormatException", {}, table, 0)
    ELSE LET found == {u \in table : u.id = id}
         IN Result(IF found = {} THEN "null" ELSE "ok", found, table, 1)

\* UsersService.update(id, updateUserInput): the part after the existence
\* check (the try block): hash the password if it is truthy, then write.
UsersService_update_write(table, id, input) ==
    LET data == IF Truthy(input.password)
                THEN [input EXCEPT !.password = bcryptHash(input.password)]
                ELSE input
        r == prismaUserUpdate(table, id, data)
    IN Result(catchP2002(r.code), r.rows, r.table, 1)

\* UsersService.update(id, updateUserInput), run without interruption.
UsersService_update(table, id, input) ==
    IF ~isValidUUID(id)
    THEN Result("InvalidFormatException", {}, table, 0)
    ELSE IF ~\E u \in table : u.id = id
    THEN Result("ResourceNotFoundException", {}, table, 1)
    ELSE [UsersService_update_write(table, id, input) EXCEPT !.queries = 2]

\* UsersService.remove(id), run without interruption.
UsersService_remove(table, id) ==
    IF ~isValidUUID(id)
    THEN Result("InvalidFormatException", {}, table, 0)
    ELSE IF ~\E u \in table : u.id = id
    THEN Result("ResourceNotFoundException", {}, table, 1)
    ELSE LET r == prismaUserDelete(table, id)
         IN Result(r.code, r.rows, r.table, 2)

\* The create without the unique index on sku.
prismaProductCreate_noIndex(table, newId, data) ==
    LET row == [id |-> newId, name |-> data.name, sku |-> data.sku,
                userId |-> data.userId]
    IN [code |-> "ok", rows |-> {row}, table |-> table \cup {row}]

\* prisma.product.create({ data }): the unique index on sku.
prismaProductCreate(table, newId, data) ==
    IF \E p \in table : p.sku = data.sku
    THEN [code |-> "P2002", rows |-> {}, table |-> table]
    ELSE LET row == [id |-> newId, name |-> data.name, sku |-> data.sku,
                     userId |-> data.userId]
         IN [code |-> "ok", rows |-> {row}, table |-> table \cup {row}]

\* prisma.product.update({ where: { id }, data })
prismaProductUpdate(table, id, data) ==
    IF ~\E p \in table : p.id = id
    THEN [code |-> "P2025", rows |-> {}, table |-> table]
    ELSE IF data.sku # Undefined /\ \E p \in table : p.id # id /\ p.sku = data.sku
    THEN [code |-> "P2002", rows |-> {}, table |-> table]
    ELSE LET new(p) == [p EXCEPT
                          !.sku    = IF data.sku # Undefined THEN data.sku ELSE @,
                          !.userId = IF data.userId # Undefined THEN data.userId ELSE @]
         IN [code  |-> "ok",
             rows  |-> {new(p) : p \in {q \in table : q.id = id}},
             table |-> {IF p.id = id THEN new(p) ELSE p : p \in table}]

\* prisma.product.delete({ where: { id } })
prismaProductDelete(table, id) ==
    IF ~\E p \in table : p.id = id
    THEN [code |-> "P2025", rows |-> {}, table |-> table]
    ELSE [code |-> "ok", rows |-> {p \in table : p.id = id},
          table |-> {p \in table : p.id # id}]

\* ProductsService.create(createProductInput)
ProductsService_create(table, newId, input) ==
    IF ~isValidUUID(input.userId)
    THEN Result("InvalidFormatException", {}, table, 0)
    ELSE LET r == prismaProductCreate(table, newId, input)
         IN Result(catchP2002(r.code), r.rows, r.table, 1)

\* ProductsService.findOne(id)
ProductsService_findOne(table, id) ==
    IF ~isValidUUID(id)
    THEN Result("InvalidFormatException", {}, table, 0)
    ELSE LET found == {p \in table : p.id = id}
         IN Result(IF found = {} THEN "null" ELSE "ok", found, table, 1)

\* ProductsService.update(id, updateProductInput), up to its write: the id
\* format, the existence check, then the format of a truthy userId.
\* "proceed" stands for reaching the try block.
ProductsService_update_check(table, id, input) ==
    IF ~isValidUUID(id)
    THEN Result("InvalidFormatException", {}, table, 0)
    ELSE IF ~\E p \in table : p.id = id
    THEN Result("ResourceNotFoundException", {}, table, 1)
    ELSE IF Truthy(input.userId) /\ ~isValidUUID(input.userId)
    THEN Result("InvalidFormatException", {}, table, 1)
    ELSE Result("proceed", {}, table, 1)

\* ProductsService.update, the try block: the write and its catch.
ProductsService_update_write(table, id, input) ==
    LET r == prismaProductUpdate(table, id, input)
    IN Result(catchP2002(r.code), r.rows, r.table, 1)

\* ProductsService.update(id, updateProductInput), run without interruption.
ProductsService_update(table, id, input) ==
    LET c == ProductsService_update_check(table, id, input)
    IN IF c.status # "proceed" THEN c
       ELSE [ProductsService_update_write(table, id, input) EXCEPT !.queries = 2]

\* ProductsService.remove(id), up to its delete.
ProductsService_remove_check(table, id) ==
    IF ~isValidUUID(id)
    THEN Result("InvalidFormatException", {}, table, 0)
    ELSE IF ~\E p \in table : p.id = id
    THEN Result("ResourceNotFoundException", {}, table, 1)
    ELSE Result("proceed", {}, table, 1)

\* ProductsService.remove, the delete; its error is not caught.
ProductsService_remove_write(table, id) ==
    LET r == prismaProductDelete(table, id)
    IN Result(r.code, r.rows, r.table, 1)

\* ProductsService.remove(id), run without interruption.
ProductsService_remove(table, id) ==
    LET c == ProductsService_remove_check(table, id)
    IN IF c.status # "proceed" THEN c
       ELSE [ProductsService_remove_write(table, id) EXCEPT !.queries = 2]

\* The last call made on a service, as `reply` keeps it: the method, its
\* arguments, how it ended, the rows the service method returned, what the
\* resolver in front of it returned to GraphQL, and the queries it made.
Outcome(op, id, input, r, returned) ==
    [op |-> op, id |-> id, input |-> input, status |-> r.status,
     value |-> r.value, returned |-> returned, queries |-> r.queries]

\* What UsersResolver hands to GraphQL for the rows a service method
\* returned (toGraphQLUser on each; nothing for null or an exception).
UsersResolver_returned(r) == {toGraphQLUser(u) : u \in r.value}

\* The same for ProductsResolver (toGraphQLProduct).
ProductsResolver_returned(r) == {toGraphQLProduct(p) : p \in r.value}

\* Inputs of the mutations.  Optional fields of the update inputs may be
\* left out; class-validator decorators are not applied (no ValidationPipe
\* is installed by either bootstrap), so any string reaches the service.
NewPasswords     == {"secret2"}
CreateUserInputs == [email : Emails, name : Names, password : Passwords]
UpdateUserInputs == [email    : Emails \cup {Undefined},
                     password : NewPasswords \cup {"", Undefined}]
CreateProductInputs == [name : ProductNames, sku : Skus, userId : Ids \cup {""}]
UpdateProductInputs == [sku    : Skus \cup {Undefined},
                        userId : Ids \cup {"", Undefined}]

\* mutation createUser -> UsersService.create
CallUsersCreate(input) ==
    /\ "users" \in listening
    /\ \E newId \in WellFormedIds :
         /\ ~\E u \in users : u.id = newId
         /\ LET r == UsersService_create(users, newId, input)
            IN /\ Cardinality(r.table) <= MaxUsers
               /\ users' = r.table
               /\ reply' = Outcome("UsersService.create", Undefined, input, r,
                                   UsersResolver_returned(r))
    /\ UNCHANGED <<products, listening, gateway, req, seed, launch, calls>>

\* query users -> UsersService.findAll
CallUsersFindAll ==
    /\ "users" \in listening
    /\ LET r == UsersService_findAll(users)
       IN reply' = Outcome("UsersService.findAll", Undefined, Undefined, r,
                           UsersResolver_returned(r))
    /\ UNCHANGED <<users, products, listening, gateway, req, seed, launch, calls>>

\* query user(id) -> UsersService.findOne
CallUsersFindOne(id) ==
    /\ "users" \in listening
    /\ LET r == UsersService_findOne(users, id)
       IN /\ users' = r.table
          /\ reply' = Outcome("UsersService.findOne", id, Undefined, r,
                              UsersResolver_returned(r))
    /\ UNCHANGED <<products, listening, gateway, req, seed, launch, calls>>

\* mutation updateUser -> UsersService.update(input.id, input)
CallUsersUpdate(id, input) ==
    /\ "users" \in listening
    /\ LET r == UsersService_update(users, id, input)
       IN /\ users' = r.table
          /\ reply' = Outcome("UsersService.update", id, input, r,
                              UsersResolver_returned(r))
    /\ UNCHANGED <<products, listening, gateway, req, seed, launch, calls>>

\* mutation removeUser -> UsersService.remove
CallUsersRemove(id) ==
    /\ "users" \in listening
    /\ LET r == UsersService_remove(users, id)
       IN /\ users' = r.table
          /\ reply' = Outcome("UsersService.remove", id, Undefined, r,
                              UsersResolver_returned(r))
    /\ UNCHANGED <<products, listening, gateway, req, seed, launch, calls>>

\* mutation createProduct -> ProductsService.create
CallProductsCreate(input) ==
    /\ "products" \in listening
    /\ \E newId \in WellFormedIds :
         /\ ~\E p \in products : p.id = newId
         /\ LET r == ProductsService_create(products, newId, input)
            IN /\ Cardinality(r.table) <= MaxProducts
               /\ products' = r.table
               /\ reply' = Outcome("ProductsService.create", Undefined, input, r,
                                   ProductsResolver_returned(r))
    /\ UNCHANGED <<users, listening, gateway, req, seed, launch, calls>>

\* query product(id) -> ProductsService.findOne
CallProductsFindOne(id) ==
    /\ "products" \in listening
    /\ LET r == ProductsService_findOne(products, id)
       IN /\ products' = r.table
          /\ reply' = Outcome("ProductsService.findOne", id, Undefined, r,
                              ProductsResolver_returned(r))
    /\ UNCHANGED <<users, listening, gateway, req, seed, launch, calls>>

\* mutation updateProduct -> ProductsService.update(input.id, input)
CallProductsUpdate(id, input) ==
    /\ "products" \in listening
    /\ LET r == ProductsService_update(products, id, input)
       IN /\ products' = r.table
          /\ reply' = Outcome("ProductsService.update", id, input, r,
                              ProductsResolver_returned(r))
    /\ UNCHANGED <<users, listening, gateway, req, seed, launch, calls>>

\* mutation removeProduct -> ProductsService.remove
CallProductsRemove(id) ==
    /\ "products" \in listening
    /\ LET r == ProductsService_remove(products, id)
       IN /\ products' = r.table
          /\ reply' = Outcome("ProductsService.remove", id, Undefined, r,
                              ProductsResolver_returned(r))
    /\ UNCHANGED <<users, listening, gateway, req, seed, launch, calls>>

\* The users service with every input of its mutations.
NextUsersCrud ==
    \/ Bootstrap("users")
    \/ \E input \in CreateUserInputs : CallUsersCreate(input)
    \/ CallUsersFindAll
    \/ \E id \in Ids : CallUsersFindOne(id)
    \/ \E id \in Ids, input \in UpdateUserInputs : CallUsersUpdate(id, input)
    \/ \E id \in Ids : CallUsersRemove(id)

SpecUsersCrud == Init /\ [][NextUsersCrud]_vars

\* The products service with every input of its mutations.
NextProductsCrud ==
    \/ Bootstrap("products")
    \/ \E input \in CreateProductInputs : CallProductsCreate(input)
    \/ \E id \in Ids : CallProductsFindOne(id)
    \/ \E id \in Ids, input \in UpdateProductInputs : CallProductsUpdate(id, input)
    \/ \E id \in Ids : CallProductsRemove(id)

SpecProductsCrud == Init /\ [][NextProductsCrud]_vars

\* Both services side by side, with the inputs their guards tell apart:
\* a new email or none, a new sku or none, a userId left out or malformed.
ServicesUserUpdates    == [email : Emails \cup {Undefined}, password : {Undefined}]
ServicesProductCreates == [name : ProductNames, sku : Skus,
                           userId : {"00000000-0000-4000-8000-000000000001", "u1"}]
ServicesProductUpdates == [sku : Skus \cup {Undefined}, userId : {Undefined, "u1"}]

NextServices ==
    \/ \E svc \in {"users", "products"} : Bootstrap(svc)
    \/ \E input \in CreateUserInputs : CallUsersCreate(input)
    \/ \E id \in Ids : CallUsersFindOne(id)
    \/ \E id \in Ids, input \in ServicesUserUpdates : CallUsersUpdate(id, input)
    \/ \E id \in Ids : CallUsersRemove(id)
    \/ \E input \in ServicesProductCreates : CallProductsCreate(input)
    \/ \E id \in Ids : CallProductsFindOne(id)
    \/ \E id \in Ids, input \in ServicesProductUpdates : CallProductsUpdate(id, input)
    \/ \E id \in Ids : CallProductsRemove(id)

SpecServices == Init /\ [][NextServices]_vars

\* ------------------------------------------------- the reference resolvers
\* UsersResolver.resolveReference(reference) -> UsersService.findOne, with
\* the database's part made explicit: findUnique answers, or it is
\* rejected (the connection is lost).  Neither the service nor the
\* resolver catches the rejection, so it reaches GraphQL as an error.
UsersResolver_resolveReference_on(table, reference, db) ==
    IF isValidUUID(reference.id) /\ db = "rejected"
    THEN Result("PrismaClientError", {}, table, 1)
    ELSE UsersService_findOne(table, reference.id)

\* ProductsResolver.resolveReference(reference) -> ProductsService.findOne
ProductsResolver_resolveReference_on(table, reference, db) ==
    IF isValidUUID(reference.id) /\ db = "rejected"
    THEN Result("PrismaClientError", {}, table, 1)
    ELSE ProductsService_findOne(table, reference.id)

\* An _entities lookup of a User sent to the users service.
ResolveUserReference(reference, db) ==
    /\ "users" \in listening
    /\ LET r == UsersResolver_resolveReference_on(users, reference, db)
       IN reply' = Outcome("User.resolveReference", reference.id, db, r,
                           UsersResolver_returned(r))
    /\ UNCHANGED <<users, products, listening, gateway, req, seed, launch, calls>>

\* An _entities lookup of a Product sent to the products service.
ResolveProductReference(reference, db) ==
    /\ "products" \in listening
    /\ LET r == ProductsResolver_resolveReference_on(products, reference, db)
       IN reply' = Outcome("Product.resolveReference", reference.id, db, r,
                           ProductsResolver_returned(r))
    /\ UNCHANGED <<users, products, listening, gateway, req, seed, launch, calls>>

\* The reference resolvers next to the mutations that store and remove
\* the entities they look up.
NextReference ==
    \/ \E svc \in {"users", "products"} : Bootstrap(svc)
    \/ \E input \in CreateUserInputs : CallUsersCreate(input)
    \/ \E id \in WellFormedIds : CallUsersRemove(id)
    \/ \E input \in ServicesProductCreates : CallProductsCreate(input)
    \/ \E id \in WellFormedIds : CallProductsRemove(id)
    \/ \E r \in UserRefs, db \in {"answered", "rejected"} : ResolveUserReference(r, db)
    \/ \E r \in ProductRefs, db \in {"answered", "rejected"} : ResolveProductReference(r, db)

SpecReference == Init /\ [][NextReference]_vars

\* ------------------------------------------------- concurrent calls
\* ProductsService methods called at once by several callers.  A method
\* runs up to its next database statement in one step: create has one
\* statement (the insert); update and remove have two (findUnique, then
\* the write), and other calls may run between them.
RaceCreates == [name : ProductNames, sku : Skus,
                userId : {"00000000-0000-4000-8000-000000000001"}]
RaceUpdates == [sku : Skus \cup {Undefined}, userId : {Undefined}]

\* The call of caller c has ended with status.
Ended(c, op, id, input, status) ==
    calls' = [calls EXCEPT ![c] = [pc |-> "done", op |-> op, id |-> id,
                                   input |-> input, status |-> status]]

\* The call of caller c has passed its checks and waits for its write.
Checked(c, op, id, input) ==
    calls' = [calls EXCEPT ![c] = [pc |-> "checked", op |-> op, id |-> id,
                                   input |-> input, status |-> "none"]]

\* ProductsService.create, called by c.
RaceCreate(c, input) ==
    /\ "products" \in listening
    /\ calls[c].pc = "idle"
    /\ \E newId \in WellFormedIds :
         /\ ~\E p \in products : p.id = newId
         /\ LET r == ProductsService_create(products, newId, input)
            IN /\ Cardinality(r.table) <= MaxProducts
               /\ products' = r.table
               /\ Ended(c, "create", "", input, r.status)
    /\ UNCHANGED <<users, listening, gateway, reply, req, seed, launch>>

\* ProductsService.update, called by c: the checks up to findUnique.
RaceUpdateCheck(c, id, input) ==
    /\ "products" \in listening
    /\ calls[c].pc = "idle"
    /\ LET r == ProductsService_update_check(products, id, input)
       IN IF r.status = "proceed"
          THEN Checked(c, "update", id, input)
          ELSE Ended(c, "update", id, input, r.status)
    /\ UNCHANGED <<users, products, listening, gateway, reply, req, seed, launch>>

\* ProductsService.update, called by c: prisma.product.update and the catch.
RaceUpdateWrite(c) ==
    /\ calls[c].pc = "checked"
    /\ calls[c].op = "update"
    /\ LET r == ProductsService_update_write(products, calls[c].id, calls[c].input)
       IN /\ products' = r.table
          /\ Ended(c, "update", calls[c].id, calls[c].input, r.status)
    /\ UNCHANGED <<users, listening, gateway, reply, req, seed, launch>>

\* ProductsService.remove, called by c: the checks up to findUnique.
RaceRemoveCheck(c, id) ==
    /\ "products" \in listening
    /\ calls[c].pc = "idle"
    /\ LET r == ProductsService_remove_check(products, id)
       IN IF r.status = "proceed"
          THEN Checked(c, "remove", id, "")
          ELSE Ended(c, "remove", id, "", r.status)
    /\ UNCHANGED <<users, products, listening, gateway, reply, req, seed, launch>>

\* ProductsService.remove, called by c: prisma.product.delete.
RaceRemoveWrite(c) ==
    /\ calls[c].pc = "checked"
    /\ calls[c].op = "remove"
    /\ LET r == ProductsService_remove_write(products, calls[c].id)
       IN /\ products' = r.table
          /\ Ended(c, "remove", calls[c].id, "", r.status)
    /\ UNCHANGED <<users, listening, gateway, reply, req, seed, launch>>

\* The caller has its answer and may call again.
RaceReturn(c) ==
    /\ calls[c].pc = "done"
    /\ calls' = [calls EXCEPT ![c] = IdleCall]
    /\ UNCHANGED <<users, products, listening, gateway, reply, req, seed, launch>>

NextProductsRace ==
    \/ Bootstrap("products")
    \/ \E c \in Callers, input \in RaceCreates : RaceCreate(c, input)
    \/ \E c \in Callers, id \in Ids, input \in RaceUpdates : RaceUpdateCheck(c, id, input)
    \/ \E c \in Callers : RaceUpdateWrite(c)
    \/ \E c \in Callers, id \in Ids : RaceRemoveCheck(c, id)
    \/ \E c \in Callers : RaceRemoveWrite(c)
    \/ \E c \in Callers : RaceReturn(c)

SpecProductsRace == Init /\ [][NextProductsRace]_vars

\* ------------------------------------------------------------ Scenario A
\* The sub-operations of a finished request are the documented plan for
\* the user with identifier id: one wave-0 fetch on users selecting the
\* key field id next to name, then one wave-1 entity fetch on products
\* whose representations are [{__typename: "User", id}].
PlanIsScenarioA(id) ==
    /\ Len(req.steps) = 2
    /\ req.steps[1].service = "users"
    /\ req.steps[1].wave = 0
    /\ {"id", "name"} \subseteq req.steps[1].selection
    /\ req.steps[2].service = "products"
    /\ req.steps[2].wave = 1
    /\ req.steps[2].representations = {[__typename |-> "User", id |-> id]}

SeedReferentialIntegrity ==
    [][(seed.pc # "done" /\ seed'.pc = "done") =>
         \A p \in products' : \E u \in users' : u.id = p.userId]_vars

\* ------------------------------------------------------------ startup
\* C20: under pnpm dev and docker-compose the gateway waits for the
\* microservices: whenever the gateway begins introspecting the subgraphs,
\* the users service and the products service are both already listening,
\* whatever time each service takes to become ready.
GatewayWaitsForServices ==
    [][(gateway = "down" /\ gateway' # "down") =>
         {"users", "products"} \subseteq listening]_vars

\* ------------------------------------------------------------ the contracts
\* C21: UsersService.create throws BadRequestException if the email
\* already exists, and in that case no additional user is stored: the set
\* of stored users is the same before and after the failed call.
CreateDuplicateEmail_BadRequest ==
    [][\A input \in CreateUserInputs :
         (CallUsersCreate(input) /\ \E u \in users : u.email = input.email) =>
             /\ IsBadRequestException(reply'.status)
             /\ users' = users]_vars

\* A failed update or remove call as C22 lists them: the id is malformed,
\* or no record has it, or (update) another record holds the new unique
\* value.
UsersCallFails(id, email) ==
    \/ id \notin WellFormedIds
    \/ ~\E u \in users : u.id = id
    \/ email # Undefined /\ \E u \in users : u.id # id /\ u.email = email

ProductsCallFails(id, sku) ==
    \/ id \notin WellFormedIds
    \/ ~\E p \in products : p.id = id
    \/ sku # Undefined /\ \E p \in products : p.id # id /\ p.sku = sku

\* C22: update(id, input) and remove(id) of UsersService and
\* ProductsService throw BadRequestException when the id format is
\* invalid or no record with that id exists (update also when the new
\* email or SKU already exists), and every such failed call leaves all
\* stored records unchanged.
UpdateRemoveFailure_BadRequest ==
    [][/\ \A id \in Ids, input \in ServicesUserUpdates :
            (CallUsersUpdate(id, input) /\ UsersCallFails(id, input.email)) =>
                IsBadRequestException(reply'.status) /\ users' = users
       /\ \A id \in Ids :
            (CallUsersRemove(id) /\ UsersCallFails(id, Undefined)) =>
                IsBadRequestException(reply'.status) /\ users' = users
       /\ \A id \in Ids, input \in ServicesProductUpdates :
            (CallProductsUpdate(id, input) /\ ProductsCallFails(id, input.sku)) =>
                IsBadRequestException(reply'.status) /\ products' = products
       /\ \A id \in Ids :
            (CallProductsRemove(id) /\ ProductsCallFails(id, Undefined)) =>
                IsBadRequestException(reply'.status) /\ products' = products]_vars

\* C23: findOne(id) of UsersService and ProductsService returns the
\* stored record when one with that id exists, returns null when the id is
\* a valid UUID with no record, and throws InvalidFormatException (a
\* BadRequestException) without querying the database when the id is not a
\* valid UUID; it never changes stored data.
FindOneContract ==
    [][/\ \A id \in Ids :
            CallUsersFindOne(id) =>
                /\ users' = users /\ products' = products
                /\ (\E u \in users : u.id = id) =>
                       /\ reply'.status = "ok"
                       /\ reply'.value = {u \in users : u.id = id}
                /\ (id \in WellFormedIds /\ ~\E u \in users : u.id = id) =>
                       /\ reply'.status = "null"
                       /\ reply'.value = {}
                /\ id \in MalformedIds =>
                       /\ reply'.status = "InvalidFormatException"
                       /\ ExceptionParent[reply'.status] = "BadRequestException"
                       /\ reply'.queries = 0
       /\ \A id \in Ids :
            CallProductsFindOne(id) =>
                /\ users' = users /\ products' = products
                /\ (\E p \in products : p.id = id) =>
                       /\ reply'.status = "ok"
                       /\ reply'.value = {p \in products : p.id = id}
                /\ (id \in WellFormedIds /\ ~\E p \in products : p.id = id) =>
                       /\ reply'.status = "null"
                       /\ reply'.value = {}
                /\ id \in MalformedIds =>
                       /\ reply'.status = "InvalidFormatException"
                       /\ ExceptionParent[reply'.status] = "BadRequestException"
                       /\ reply'.queries = 0]_vars

\* C23 witness: findOne has returned a stored product while a user is
\* stored too.
FindOneContract_Witness ==
    /\ reply.op = "ProductsService.findOne"
    /\ reply.status = "ok"
    /\ reply.value # {}
    /\ reply.value \subseteq products
    /\ users # {}

SerializeUser(obj) == Project(obj, UserOwnedFields \cap DOMAIN obj)

\* The values a stored password can take.
StoredPasswords ==
    {bcryptHash(p) : p \in Passwords \cup NewPasswords \cup {""}}
        \cup Passwords \cup NewPasswords \cup {""}

\* The users tables that differ from table only in stored password values.
PasswordVariants(table) ==
    {{[u EXCEPT !.password = f[u.id]] : u \in table} :
        f \in [{u.id : u \in table} -> StoredPasswords]}

\* Two outcomes of the same call are the same to a GraphQL client: same
\* ending, same objects from the resolver that converts (toGraphQLUser),
\* same serialised objects from the resolver that returns the rows.
SamePublic(a, b) ==
    /\ a.status = b.status
    /\ UsersResolver_returned(a) = UsersResolver_returned(b)
    /\ {SerializeUser(u) : u \in a.value} = {SerializeUser(u) : u \in b.value}

\* No object of an outcome that reaches a GraphQL client has a password.
CarriesNoPassword(a) ==
    \A o \in UsersResolver_returned(a) \cup {SerializeUser(u) : u \in a.value} :
        "password" \notin DOMAIN o

\* C25: the password exists in the database but is never exposed via
\* GraphQL: for any two users-database states that differ only in stored
\* password values, every value returned by any users-service query,
\* mutation or reference resolver is identical, and no returned object
\* carries the password.
PasswordNotExposed ==
    /\ reply.op \in {"UsersService.create", "UsersService.findAll",
                     "UsersService.findOne", "UsersService.update",
                     "UsersService.remove"} =>
           \A o \in reply.returned : "password" \notin DOMAIN o
    /\ \A t2 \in PasswordVariants(users) :
         /\ \A input \in CreateUserInputs,
               newId \in WellFormedIds \ {u.id : u \in users} :
              /\ SamePublic(UsersService_create(users, newId, input),
                            UsersService_create(t2, newId, input))
              /\ CarriesNoPassword(UsersService_create(users, newId, input))
         /\ SamePublic(UsersService_findAll(users), UsersService_findAll(t2))
         /\ CarriesNoPassword(UsersService_findAll(users))
         /\ \A id \in Ids :
              /\ SamePublic(UsersService_findOne(users, id), UsersService_findOne(t2, id))
              /\ CarriesNoPassword(UsersService_findOne(users, id))
              /\ SamePublic(UsersService_remove(users, id), UsersService_remove(t2, id))
              /\ CarriesNoPassword(UsersService_remove(users, id))
              /\ SamePublic(
                   UsersResolver_resolveReference_on(users, [__typename |-> "User", id |-> id], "answered"),
                   UsersResolver_resolveReference_on(t2, [__typename |-> "User", id |-> id], "answered"))
              /\ \A input \in UpdateUserInputs :
                   /\ SamePublic(UsersService_update(users, id, input),
                                 UsersService_update(t2, id, input))
                   /\ CarriesNoPassword(UsersService_update(users, id, input))

\* C25 witness: a user whose stored password was just replaced is
\* returned by the mutation that replaced it.
PasswordNotExposed_Witness ==
    /\ reply.op = "UsersService.update"
    /\ reply.status = "ok"
    /\ reply.input.password \in NewPasswords
    /\ reply.returned # {}
    /\ \E u \in users : u.password = bcryptHash(reply.input.password)

\* C26: after any sequence of UsersService create and update calls, the
\* password stored for every user is the bcrypt hash of the password last
\* supplied for that user and never the supplied plaintext; an update
\* that carries no password leaves the stored hash unchanged.
PasswordAlwaysHashed ==
    [][/\ \A input \in CreateUserInputs :
            (CallUsersCreate(input) /\ reply'.status = "ok") =>
                \A u \in reply'.value :
                    /\ u \in users'
                    /\ u.password = bcryptHash(input.password)
                    /\ u.password # input.password
       /\ \A id \in Ids, input \in UpdateUserInputs :
            (CallUsersUpdate(id, input) /\ reply'.status = "ok") =>
                \A old \in {u \in users : u.id = id}, new \in {u \in users' : u.id = id} :
                    IF input.password = Undefined
                    THEN new.password = old.password
                    ELSE /\ new.password = bcryptHash(input.password)
                         /\ new.password # input.password]_vars

\* ------------------------------------------------------------ products
\* C30: after any sequence of ProductsService create, update and remove
\* calls with arbitrary string inputs (including the empty string), every
\* stored product's userId is a well-formed UUID accepted by isValidUUID;
\* a create, or an update of a stored product, carrying a malformed userId
\* fails with InvalidFormatException before any write.
StoredUserIdAlwaysUUID ==
    [][/\ \A p \in products' : p.userId \in WellFormedIds
       /\ \A input \in CreateProductInputs :
            (CallProductsCreate(input) /\ input.userId \notin WellFormedIds) =>
                /\ reply'.status = "InvalidFormatException"
                /\ products' = products
       /\ \A id \in Ids, input \in UpdateProductInputs :
            (/\ CallProductsUpdate(id, input)
             /\ \E p \in products : p.id = id
             /\ input.userId \notin WellFormedIds \cup {Undefined}) =>
                /\ reply'.status = "InvalidFormatException"
                /\ products' = products]_vars

\* C27: the products database is pre-populated with 20 products (SeedCount
\* in the model): after any number of consecutive runs of the products
\* seed, starting from any prior contents, the products table holds, when
\* a run ends, exactly SeedCount products with pairwise distinct SKUs
\* SKU-00001 to the SeedCount-th, and no run fails on the unique-SKU
\* constraint.
SeedPopulatesExactly ==
    [][/\ seed'.pc # "failed"
       /\ (seed.pc # "done" /\ seed'.pc = "done") =>
             /\ Cardinality(products') = SeedCount
             /\ {p.sku : p \in products'} = {SeedSku(i) : i \in 1..SeedCount}
             /\ \A p, q \in products' : p.sku = q.sku => p = q]_vars

\* C27 witness: a seed run has ended on a table that held a product
\* created through the API before the run.
SeedPopulatesExactly_Witness ==
    /\ seed.pc = "done"
    /\ reply.op = "createProduct"
    /\ reply.status = "ok"
    /\ Cardinality(products) = SeedCount
    /\ \A o \in reply.value : \A p \in products : p.userId # o.userId

\* ------------------------------------------------------------ concurrency
\* C28: for any interleaving of concurrent update(id, .) and remove(id)
\* calls on the same id, every call either succeeds or fails with one of
\* the service's declared exceptions (InvalidFormatException,
\* ResourceNotFoundException, DuplicateResourceException), also when its
\* existence check passed and its record was deleted by another call
\* before its own write; and each remove that succeeds removes a record
\* that was stored, so at most one remove of a given record succeeds.
RaceOutcomesDeclared ==
    [][/\ \A c \in Callers :
            calls'[c].pc = "done" =>
                calls'[c].status \in {"ok"} \cup DeclaredExceptions
       /\ \A c \in Callers :
            (RaceRemoveWrite(c) /\ calls'[c].status = "ok") =>
                /\ \E p \in products : p.id = calls[c].id
                /\ ~\E p \in products' : p.id = calls[c].id]_vars

TypeOK ==
    /\ \A u \in users : u.id \in WellFormedIds /\ u.email \in Emails
    /\ \A p \in products : p.id \in WellFormedIds /\ p.sku \in Skus
    /\ listening \subseteq {"users", "products"}
    /\ gateway \in {"down", "listening", "failed"}
    /\ req.pc \in {"idle", "users", "entities", "merge", "done"}
    /\ \A c \in Callers : calls[c].pc \in {"idle", "checked", "done"}
====
